---------------------------- MODULE Spec2Model ----------------------------
(***************************************************************************)
(* symfc, src/symfc/fc_basis_compact.py: FCBasisSetsCompact and            *)
(* _get_permutation_compression_matrix.                                    *)
(*                                                                         *)
(* The construction pipeline (__init__ -> _run -> permutation compression  *)
(* matrix -> _step2 -> _step3 -> _step4) is a state machine over the       *)
(* object's fields and the locals of the running function.  Matrix entries *)
(* are IEEE-754 binary64 numbers: a 53-bit significand held as base-2^13   *)
(* digits and an exponent, with round-to-nearest-even products and sums.   *)
(***************************************************************************)
EXTENDS Integers, Sequences, FiniteSets

(***************************************************************************)
(* Natural numbers of any size: little-endian digit sequences, base 2^13,  *)
(* no leading zero digit (zero is the empty sequence).                     *)
(***************************************************************************)
LimbBits == 13

Pow2Small(k) == 2 ^ k

Base == Pow2Small(LimbBits)

RECURSIVE BigTrim(_)
BigTrim(a) ==
    IF a = <<>> THEN <<>>
    ELSE IF a[Len(a)] = 0 THEN BigTrim(SubSeq(a, 1, Len(a) - 1))
    ELSE a

BigDigit(a, i) == IF i >= 1 /\ i <= Len(a) THEN a[i] ELSE 0

\* Carry propagation over column sums cs (each below 2^30).
RECURSIVE BigCarry(_, _, _)
BigCarry(cs, i, carry) ==
    IF i > Len(cs)
    THEN IF carry = 0 THEN <<>> ELSE <<carry % Base>> \o BigCarry(cs, i, carry \div Base)
    ELSE LET t == cs[i] + carry
         IN  <<t % Base>> \o BigCarry(cs, i + 1, t \div Base)

BigFromInt(n) == BigTrim(BigCarry(<<n>>, 1, 0))

BigAdd(a, b) ==
    LET len == IF Len(a) > Len(b) THEN Len(a) ELSE Len(b)
    IN  BigTrim(BigCarry([i \in 1..len |-> BigDigit(a, i) + BigDigit(b, i)], 1, 0))

RECURSIVE SumTo(_, _, _)
SumTo(f, lo, hi) == IF lo > hi THEN 0 ELSE f[lo] + SumTo(f, lo + 1, hi)

\* Schoolbook product; operands of at most 8 digits keep every column sum
\* below 2^31.
BigMul(a, b) ==
    IF a = <<>> \/ b = <<>> THEN <<>>
    ELSE LET len == Len(a) + Len(b) - 1
             col(k) == LET lo == IF k - Len(b) > 0 THEN k - Len(b) + 1 ELSE 1
                           hi == IF k < Len(a) THEN k ELSE Len(a)
                       IN  SumTo([i \in lo..hi |-> a[i] * b[k + 1 - i]], lo, hi)
         IN  BigTrim(BigCarry([k \in 1..len |-> col(k)], 1, 0))

\* -1, 0, 1 as a < b, a = b, a > b.
RECURSIVE BigCmpFrom(_, _, _)
BigCmpFrom(a, b, i) ==
    IF i = 0 THEN 0
    ELSE IF a[i] < b[i] THEN -1
    ELSE IF a[i] > b[i] THEN 1
    ELSE BigCmpFrom(a, b, i - 1)

BigCmp(a, b) ==
    IF Len(a) < Len(b) THEN -1
    ELSE IF Len(a) > Len(b) THEN 1
    ELSE BigCmpFrom(a, b, Len(a))

BigShiftLeft(a, k) ==
    IF a = <<>> THEN <<>>
    ELSE LET q == k \div LimbBits
             r == k % LimbBits
             shifted == BigCarry([i \in 1..Len(a) |-> a[i] * Pow2Small(r)], 1, 0)
         IN  BigTrim([i \in 1..q |-> 0] \o shifted)

BigShiftRight(a, k) ==
    LET q == k \div LimbBits
        r == k % LimbBits
    IN  IF Len(a) <= q THEN <<>>
        ELSE LET top == SubSeq(a, q + 1, Len(a))
             IN  IF r = 0 THEN top
                 ELSE LET up == BigCarry([i \in 1..Len(top) |->
                                             top[i] * Pow2Small(LimbBits - r)], 1, 0)
                      IN  BigTrim(SubSeq(up, 2, Len(up)))

RECURSIVE SmallBitLen(_)
SmallBitLen(n) == IF n = 0 THEN 0 ELSE 1 + SmallBitLen(n \div 2)

BigBitLen(a) ==
    IF a = <<>> THEN 0 ELSE LimbBits * (Len(a) - 1) + SmallBitLen(a[Len(a)])

BigPow2(k) == BigShiftLeft(<<1>>, k)

BigOdd(a) == a # <<>> /\ a[1] % 2 = 1

\* a / 2^k rounded to the nearest integer, ties to even.
BigRoundShift(a, k) ==
    IF k = 0 THEN a
    ELSE LET q == BigShiftRight(a, k)
             half == BigOdd(BigShiftRight(a, k - 1))
             sticky == BigShiftLeft(BigShiftRight(a, k - 1), k - 1) # a
         IN  IF half /\ (sticky \/ BigOdd(q)) THEN BigAdd(q, <<1>>) ELSE q

\* The largest g with g * g <= a that extends cur by bits at positions bit..0:
\* each bit is kept when the square still fits.
RECURSIVE BigISqrtFrom(_, _, _)
BigISqrtFrom(a, cur, bit) ==
    IF bit < 0 THEN cur
    ELSE LET cand == BigAdd(cur, BigPow2(bit))
             next == IF BigCmp(BigMul(cand, cand), a) <= 0 THEN cand ELSE cur
         IN  \* the test evaluates `next` before the call, keeping evaluation flat
             IF Len(next) >= 0 THEN BigISqrtFrom(a, next, bit - 1) ELSE <<>>

(***************************************************************************)
(* binary64 values >= 0: [m, e] stands for m * 2^(e - 52), with            *)
(* 2^52 <= m < 2^53, or zero (m empty).                                    *)
(***************************************************************************)
MantBits == 53

FZero == [m |-> <<>>, e |-> 0]

\* p * 2^(x - 52) rounded to 53 significant bits, p of at least 53 bits.
FNormalize(p, x) ==
    LET k == BigBitLen(p) - MantBits
        q == BigRoundShift(p, k)
    IN  IF BigBitLen(q) > MantBits
        THEN [m |-> BigShiftRight(q, 1), e |-> x + k + 1]
        ELSE [m |-> q, e |-> x + k]

FFromInt(n) ==
    IF n = 0 THEN FZero
    ELSE LET len == SmallBitLen(n)
         IN  [m |-> BigShiftLeft(BigFromInt(n), MantBits - len), e |-> len - 1]

FMul(x, y) ==
    IF x.m = <<>> \/ y.m = <<>> THEN FZero
    ELSE FNormalize(BigMul(x.m, y.m), x.e + y.e - (MantBits - 1))

FAdd(x, y) ==
    IF x.m = <<>> THEN y
    ELSE IF y.m = <<>> THEN x
    ELSE LET emin == IF x.e < y.e THEN x.e ELSE y.e
         IN  FNormalize(BigAdd(BigShiftLeft(x.m, x.e - emin),
                               BigShiftLeft(y.m, y.e - emin)), emin)

\* x / 2, exact.
FHalf(x) == IF x.m = <<>> THEN FZero ELSE [m |-> x.m, e |-> x.e - 1]

\* The correctly rounded square root of n in 1..3: with g the integer square
\* root of n * 2^106, sqrt(n) * 2^52 rounds to (g + 1) div 2.
FSqrtInt(n) ==
    LET g == BigISqrtFrom(BigShiftLeft(BigFromInt(n), 2 * MantBits), <<>>, MantBits)
    IN  FNormalize(BigShiftRight(BigAdd(g, <<1>>), 1), 0)

FOne == FFromInt(1)

RECURSIVE FSumFrom(_, _)
FSumFrom(xs, i) == IF i = 0 THEN FZero ELSE FAdd(FSumFrom(xs, i - 1), xs[i])

\* The terms of xs added left to right.
FSum(xs) == FSumFrom(xs, Len(xs))

(***************************************************************************)
(* Sparse matrices: [shape, rows], rows[r] a function from the column      *)
(* indices stored in row r to their values (indices count from 0).         *)
(***************************************************************************)
RECURSIVE SetToSeq(_)
SetToSeq(S) ==
    IF S = {} THEN <<>>
    ELSE LET x == CHOOSE y \in S : \A z \in S : y <= z
         IN  <<x>> \o SetToSeq(S \ {x})

\* scipy's (data, (row, col)) constructor: entries at the same (row, col) are
\* summed.
SparseFromCoo(dat, rw, cl, shape) ==
    [shape |-> shape,
     rows  |-> [r \in 0..(shape[1] - 1) |->
                  LET ts == {t \in 1..Len(rw) : rw[t] = r}
                  IN  [c \in {cl[t] : t \in ts} |->
                         LET same == SetToSeq({t \in ts : cl[t] = c})
                         IN  FSum([k \in 1..Len(same) |-> dat[same[k]]])]]]

SpEntry(A, r, c) == IF c \in DOMAIN A.rows[r] THEN A.rows[r][c] ELSE FZero

SpT(A) ==
    [shape |-> <<A.shape[2], A.shape[1]>>,
     rows  |-> [c \in 0..(A.shape[2] - 1) |->
                  [r \in {r \in 0..(A.shape[1] - 1) : c \in DOMAIN A.rows[r]} |->
                     A.rows[r][c]]]]

\* A @ B, row by row over the stored entries.
SpMul(A, B) ==
    [shape |-> <<A.shape[1], B.shape[2]>>,
     rows  |-> [r \in 0..(A.shape[1] - 1) |->
                  LET ks == DOMAIN A.rows[r]
                  IN  [c \in UNION {DOMAIN B.rows[k] : k \in ks} |->
                         LET kk == SetToSeq({k \in ks : c \in DOMAIN B.rows[k]})
                         IN  FSum([x \in 1..Len(kk) |->
                                     FMul(A.rows[r][kk[x]], B.rows[kk[x]][c])])]]]

(***************************************************************************)
(* The program.                                                            *)
(***************************************************************************)
\* Python's None; a value that may be None is <<>> or <<x>>.
None == <<>>

Some(x) == <<x>>

\* The exhausted iterator.
Exhausted == <<>>

\* Largest natom the compression matrix is built for on its own.
MaxNatomPerm == 10

\* Largest reps[0].shape[0] given to the constructor.
MaxShape == 6

\* Largest rank the eigensolver is asked for, short of the full size.
MaxRank == 2

\* Eigenvalues and singular values are counted in units of 10^-9.
One == 10 ^ 9

\* tol = 1e-8
Tol == 10

VARIABLES
    pc,              \* where construction stands
    error,           \* the exception that ended construction, or None
    self_reps,       \* self._reps: [shape0, identity_only]
    self_natom,      \* self._natom
    self_basis_sets, \* self._basis_sets
    natom,           \* _get_permutation_compression_matrix: its argument
    comb,            \* ... the pair the iterator yields next
    val, n, row, col, data,   \* ... its locals
    perm_mat,        \* _run: perm_mat
    rank, vals, vecs, \* _step2: rank, vals as eigsh returned them, and
                     \*         nonzero_elems, the columns kept in vecs
    ucols            \* _step3: the number of columns of U

vars == <<pc, error, self_reps, self_natom, self_basis_sets, natom, comb,
          val, n, row, col, data, perm_mat, rank, vals, vecs, ucols>>

\* symfc.matrix_funcs.to_serial: the NN33 row-major index of (i, j, a, b).
to_serial(i, a, j, b, N) == (i * 9 * N) + (j * 9) + (a * 3) + b

\* Variants of np.sqrt(2) / 2: 1 / 2, and np.sqrt(2) not halved.
HalfOfOne == FHalf(FFromInt(1))

SqrtTwoUnhalved == FSqrtInt(2)

\* np.sqrt(2) / 2
SqrtTwoHalf == FHalf(FSqrtInt(2))

\* A variant of the iterator: itertools.combinations, a pair never repeating
\* its first member after the start.
NextPairNoReplacement(p, n3) ==
    IF p[2] + 1 < n3 THEN <<p[1], p[2] + 1>>
    ELSE IF p[1] + 2 < n3 THEN <<p[1] + 1, p[1] + 2>>
    ELSE Exhausted

\* itertools.combinations_with_replacement(range(n3), 2)
FirstPair(n3) == IF n3 > 0 THEN <<0, 0>> ELSE Exhausted

NextPair(p, n3) ==
    IF p[2] + 1 < n3 THEN <<p[1], p[2] + 1>>
    ELSE IF p[1] + 1 < n3 THEN <<p[1] + 1, p[1] + 1>>
    ELSE Exhausted

\* Variants of the loop body: one that appends only the row of (i, a, j, b),
\* and one whose second row swaps the atoms but not the directions.
PairEntriesOneRow(ia, jb, nn, N) ==
    << <<to_serial(ia \div 3, ia % 3, jb \div 3, jb % 3, N), nn,
         IF ia = jb THEN FFromInt(1) ELSE val>> >>

PairEntriesUnswapped(ia, jb, nn, N) ==
    IF ia = jb
    THEN << <<to_serial(ia \div 3, ia % 3, jb \div 3, jb % 3, N), nn, FFromInt(1)>> >>
    ELSE << <<to_serial(ia \div 3, ia % 3, jb \div 3, jb % 3, N), nn, val>>,
            <<to_serial(jb \div 3, ia % 3, ia \div 3, jb % 3, N), nn, val>> >>

\* The entries one iteration appends, as <<row, col, data>> triples.
PairEntries(ia, jb, nn, N) ==
    LET i_i == ia \div 3
        i_a == ia % 3
        i_j == jb \div 3
        i_b == jb % 3
    IN  IF i_i = i_j /\ i_a = i_b
        THEN << <<to_serial(i_i, i_a, i_j, i_b, N), nn, FFromInt(1)>> >>
        ELSE << <<to_serial(i_i, i_a, i_j, i_b, N), nn, val>>,
                <<to_serial(i_j, i_b, i_i, i_a, N), nn, val>> >>

NextN(nn) == nn + 1

ParityAssert(N, nn) ==
    IF (N * 3) % 2 = 1
    THEN (N * 3) * ((N * 3 + 1) \div 2) = nn
    ELSE ((N * 3) \div 2) * (N * 3 + 1) = nn

PermLocalsCleared ==
    comb' = Exhausted /\ val' = None /\ n' = None /\ row' = <<>> /\ col' = <<>> /\ data' = <<>>

PermLoopBody ==
    /\ pc = "perm_loop"
    /\ comb # Exhausted
    /\ LET es == PairEntries(comb[1], comb[2], n, natom)
       IN  /\ row'  = row  \o [k \in 1..Len(es) |-> es[k][1]]
           /\ col'  = col  \o [k \in 1..Len(es) |-> es[k][2]]
           /\ data' = data \o [k \in 1..Len(es) |-> es[k][3]]
    /\ n' = NextN(n)
    /\ comb' = NextPair(comb, natom * 3)
    /\ UNCHANGED <<pc, error, self_reps, self_natom, self_basis_sets, natom, val,
                   perm_mat, rank, vals, vecs, ucols>>

PermLoopExit ==
    /\ pc = "perm_loop"
    /\ comb = Exhausted
    /\ IF ~ParityAssert(natom, n)
       THEN pc' = "raised" /\ error' = "AssertionError" /\ perm_mat' = None
       ELSE IF \E t \in 1..Len(row) :
                  row[t] < 0 \/ row[t] >= natom * natom * 9 \/ col[t] < 0 \/ col[t] >= n
       THEN pc' = "raised" /\ error' = "ValueError" /\ perm_mat' = None
       ELSE /\ pc' = "step2"
            /\ error' = error
            /\ perm_mat' = Some(SparseFromCoo(data, row, col, <<natom * natom * 9, n>>))
    /\ PermLocalsCleared
    /\ UNCHANGED <<self_reps, self_natom, self_basis_sets, natom, rank, vals, vecs, ucols>>

InitPerm ==
    /\ pc = "perm_loop"
    /\ error = "none"
    /\ self_reps = None /\ self_natom = None /\ self_basis_sets = None
    /\ natom \in 1..MaxNatomPerm
    /\ comb = FirstPair(natom * 3)
    /\ val = SqrtTwoHalf
    /\ n = 0 /\ row = <<>> /\ col = <<>> /\ data = <<>>
    /\ perm_mat = None
    /\ rank = None /\ vals = None /\ vecs = None /\ ucols = None

NextPerm == PermLoopBody \/ PermLoopExit

SpecPerm == InitPerm /\ [][NextPerm]_vars

(***************************************************************************)
(* FCBasisSetsCompact.                                                     *)
(***************************************************************************)
\* Python's round() of the ratio num / den: to the nearest integer, a tie to
\* the even one.
PyRoundRatio(num, den) ==
    LET q == num \div den
        r == num % den
    IN  IF 2 * r < den THEN q
        ELSE IF 2 * r > den THEN q + 1
        ELSE IF q % 2 = 0 THEN q ELSE q + 1

\* int(round(x)) of a binary64 x, 0 <= x < 2^26.
FRoundToInt(x) ==
    IF x.m = <<>> \/ x.e < -1 THEN 0
    ELSE LET q == BigRoundShift(x.m, (MantBits - 1) - x.e)
         IN  BigDigit(q, 1) + Base * BigDigit(q, 2)

Abs(x) == IF x < 0 THEN -x ELSE x

\* self._natom = int(round(self._reps[0].shape[0] / 3))
NatomOfShape(shape0) == PyRoundRatio(shape0, 3)

\* A variant of the initial _basis_sets: an empty array.
EmptyBasisSets == Some(<<>>)

\* self._basis_sets: Optional[np.ndarray] = None
BasisSetsAtInit == None

WellFormed == self_natom >= 1 /\ self_reps.shape0 = 3 * self_natom

\* __init__ up to the call of _run, and _run's call of
\* _get_permutation_compression_matrix up to its loop.
Construct ==
    /\ pc = "new"
    /\ self_natom' = NatomOfShape(self_reps.shape0)
    /\ self_basis_sets' = BasisSetsAtInit
    /\ natom' = self_natom'
    /\ val' = SqrtTwoHalf
    /\ n' = 0 /\ row' = <<>> /\ col' = <<>> /\ data' = <<>>
    /\ comb' = FirstPair(natom' * 3)
    /\ pc' = "perm_loop"
    /\ UNCHANGED <<error, self_reps, perm_mat, rank, vals, vecs, ucols>>

\* size = natom * 3 * (natom * 3 + 1) // 2
Step2Size == (self_natom * 3 * (self_natom * 3 + 1)) \div 2

\* symfc.matrix_funcs.get_spg_proj_c for the identity alone:
\* P_spg = (1/G) sum_g C.T @ R_g @ C is C.T @ C; its diagonal, summed.
IdentityProjTrace ==
    LET G == SpMul(SpT(perm_mat[1]), perm_mat[1])
    IN  FSum([k \in 1..Step2Size |-> SpEntry(G, k - 1, k - 1)])

\* rank = int(round(perm_spg_mat.diagonal(k=0).sum())); for representations
\* other than the identity alone the diagonal sums to some multiple of 1/2.
RankChoices ==
    IF self_reps.identity_only /\ WellFormed
    THEN {FRoundToInt(IdentityProjTrace)}
    ELSE LET top == IF Step2Size < MaxRank THEN 2 * Step2Size ELSE 2 * MaxRank
         IN  {PyRoundRatio(th, 2) : th \in 0..top}

\* Representations whose shape does not fit natom: the collaborator or the
\* csc_array constructor may raise.
Step2ProjRaises ==
    /\ pc = "step2"
    /\ ~WellFormed
    /\ pc' = "raised" /\ error' = "ValueError"
    /\ UNCHANGED <<self_reps, self_natom, self_basis_sets, natom, comb, val, n,
                   row, col, data, perm_mat, rank, vals, vecs, ucols>>

\* scipy.sparse.linalg.eigsh(perm_spg_mat, k=rank, which="LM") raising: k <= 0,
\* k >= size for a sparse matrix, or no convergence.
EigshError(k, size) ==
    IF k <= 0 THEN "ValueError"
    ELSE IF k >= size THEN "TypeError"
    ELSE "ArpackNoConvergence"

Step2EigshRaises ==
    /\ pc = "step2"
    /\ \E k \in RankChoices :
          /\ rank' = k
          /\ error' = EigshError(k, Step2Size)
    /\ pc' = "raised"
    /\ UNCHANGED <<self_reps, self_natom, self_basis_sets, natom, comb, val, n,
                   row, col, data, perm_mat, vals, vecs, ucols>>

EigValSet == {0, Tol, -(Tol + 1), One - Tol - 1, One - Tol, One, One + Tol, One + Tol + 1}

SeqsOfLen(S, len) == [1..len -> S]

\* A variant of the filter that keeps an eigenvalue of magnitude tol.
KeepEigAtLeast(v, tol) == Abs(v) >= tol

\* np.nonzero(np.abs(vals) > tol)[0]
KeepEig(v, tol) == Abs(v) > tol

NonzeroElems(vs, tol) == SetToSeq({k \in 1..Len(vs) : KeepEig(vs[k], tol)})

\* np.testing.assert_allclose(actual, desired, rtol, atol) on one element
AllClose(actual, desired, rtol, atol) ==
    Abs(actual - desired) <= atol + rtol * Abs(desired)

\* _step2 with eigsh returning rank eigenvalues.
Step2 ==
    /\ pc = "step2"
    /\ \E k \in RankChoices :
          /\ k > 0 /\ k < Step2Size
          /\ rank' = k
          /\ \E vs \in SeqsOfLen(EigValSet, k) :
                /\ vals' = vs
                /\ \E kept \in {NonzeroElems(vs, Tol)} :
                      IF \A x \in 1..Len(kept) : AllClose(vs[kept[x]], One, 0, Tol)
                      THEN pc' = "step3" /\ vecs' = Some(kept) /\ error' = error
                      ELSE pc' = "raised" /\ vecs' = None /\ error' = "AssertionError"
    /\ UNCHANGED <<self_reps, self_natom, self_basis_sets, natom, comb, val, n,
                   row, col, data, perm_mat, ucols>>

\* _step3: U = perm_mat.T @ (get_projector_sum_rule(natom) @ (perm_mat @ vecs))
Step3 ==
    /\ pc = "step3"
    /\ ucols' = Len(vecs[1])
    /\ rank' = None /\ vals' = None /\ vecs' = None
    /\ pc' = "step4"
    /\ UNCHANGED <<error, self_reps, self_natom, self_basis_sets, natom, comb, val,
                   n, row, col, data, perm_mat>>

\* np.linalg.svd not converging.
Step4SvdRaises ==
    /\ pc = "step4"
    /\ pc' = "raised" /\ error' = "LinAlgError"
    /\ UNCHANGED <<self_reps, self_natom, self_basis_sets, natom, comb, val, n,
                   row, col, data, perm_mat, rank, vals, vecs, ucols>>

SingValSet == {0, One - Tol, One - Tol + 1, One}

\* Singular values come in descending order.
Descending(sv) == \A k \in 1..(Len(sv) - 1) : sv[k] >= sv[k + 1]

\* np.where(np.abs(s) > 1 - tol)[0]
KeepSing(sv, tol) == Abs(sv) > One - tol

\* Orthonormal left singular vectors: unit vectors of the compressed space,
\* column k being the unit vector of index cs[k], the indices increasing.
UnitColumns(len, size) ==
    {cs \in SeqsOfLen(0..(size - 1), len) : \A x \in 1..(len - 1) : cs[x] < cs[x + 1]}

\* Column c of perm_mat @ U for U[:, c] the unit vector of index u.
ExpandUnit(C, u) ==
    [r \in 0..(C.shape[1] - 1) |-> FMul(SpEntry(C, r, u), FOne)]

\* b.reshape((natom, natom, 3, 3)) of a flat vector indexed from 0.
FlatIndex(i, j, a, b, N) == ((i * N + j) * 3 + a) * 3 + b

Reshape(flat, N) ==
    [t \in (0..(N - 1)) \X (0..(N - 1)) \X (0..2) \X (0..2) |->
        flat[FlatIndex(t[1], t[2], t[3], t[4], N)]]

\* fc_basis, the list _step4 builds from the retained columns.
FcBasis(C, cs, keep, N) ==
    [x \in 1..Len(keep) |-> Reshape(ExpandUnit(C, cs[keep[x]]), N)]

\* _step4 with the SVD returning.
Step4 ==
    /\ pc = "step4"
    /\ \E sv \in {q \in SeqsOfLen(SingValSet, ucols) : Descending(q)} :
       \E cs \in UnitColumns(ucols, Step2Size) :
       \E keep \in {SetToSeq({k \in 1..ucols : KeepSing(sv[k], Tol)})} :
          self_basis_sets' = Some(FcBasis(perm_mat[1], cs, keep, self_natom))
    /\ pc' = "done"
    /\ UNCHANGED <<error, self_reps, self_natom, natom, comb, val, n, row, col,
                   data, perm_mat, rank, vals, vecs, ucols>>

\* The properties basis_sets and basis_sets_matrix_form.
basis_sets == self_basis_sets

\* symfc.matrix_funcs.convert_basis_sets_matrix_form: each (N, N, 3, 3)
\* tensor as a 3N x 3N matrix, entry (3i + a, 3j + b) being b[i, j, a, b].
convert_basis_sets_matrix_form(bs, N) ==
    [x \in 1..Len(bs) |->
        [rc \in (0..(3 * N - 1)) \X (0..(3 * N - 1)) |->
            bs[x][<<rc[1] \div 3, rc[2] \div 3, rc[1] % 3, rc[2] % 3>>]]]

basis_sets_matrix_form ==
    IF self_basis_sets = None THEN None
    ELSE Some(convert_basis_sets_matrix_form(self_basis_sets[1], self_natom))

Init ==
    /\ pc = "new"
    /\ error = "none"
    /\ self_reps \in [shape0 : 0..MaxShape, identity_only : BOOLEAN]
    /\ self_natom = None /\ self_basis_sets = None
    /\ natom = None /\ comb = Exhausted /\ val = None
    /\ n = None /\ row = <<>> /\ col = <<>> /\ data = <<>>
    /\ perm_mat = None
    /\ rank = None /\ vals = None /\ vecs = None /\ ucols = None

Next ==
    \/ Construct
    \/ PermLoopBody
    \/ PermLoopExit
    \/ Step2ProjRaises
    \/ Step2EigshRaises
    \/ Step2
    \/ Step3
    \/ Step4SvdRaises
    \/ Step4

Spec == Init /\ [][Next]_vars

(***************************************************************************)
(* Properties of _get_permutation_compression_matrix.                      *)
(***************************************************************************)
CompressedSize(N) == ((N * 3) * (N * 3 + 1)) \div 2

\* The position of the pair (ia, jb), ia <= jb < n3, in lexicographic order.
LexIndex(ia, jb, n3) == ia * n3 - ((ia * (ia - 1)) \div 2) + (jb - ia)

PairOfIndex(k, n3) ==
    CHOOSE p \in (0..(n3 - 1)) \X (0..(n3 - 1)) :
        p[1] <= p[2] /\ LexIndex(p[1], p[2], n3) = k

\* 1 + 2^-52, the binary64 number next above 1.
FOnePlusUlp == [m |-> BigAdd(BigPow2(MantBits - 1), <<1>>), e |-> 0]

\* x is the binary64 number nearest to sqrt(2) / 2: with x = m * 2^-53,
\* (2m - 1)^2 < 2^107 < (2m + 1)^2.
IsNearestSqrtTwoHalf(x) ==
    /\ x.e = -1
    /\ BigBitLen(x.m) = MantBits
    /\ LET twice == BigShiftLeft(x.m, 1)
           up    == BigAdd(twice, <<1>>)
       IN  /\ BigCmp(BigMul(up, up), BigPow2(2 * MantBits + 1)) > 0
           /\ BigCmp(BigAdd(BigMul(twice, twice), <<1>>),
                     BigAdd(BigPow2(2 * MantBits + 1), BigShiftLeft(twice, 1))) < 0

\* C9: the column index n is given to the pairs (ia, jb), ia <= jb < 3N, in
\* lexicographic order, once per pair and without gaps: the pair taken next
\* is the one of index n, the entries appended last carry column n - 1 and
\* the rows of pair n - 1, the loop ends with n = 3N(3N+1)/2, and the parity
\* assertion does not fail.
C9_ColumnPerPairInOrder ==
    /\ error # "AssertionError"
    /\ pc = "perm_loop" =>
         LET n3 == natom * 3
         IN  /\ n \in 0..CompressedSize(natom)
             /\ comb = IF n < CompressedSize(natom) THEN PairOfIndex(n, n3) ELSE Exhausted
             /\ Len(col) = Len(row) /\ Len(data) = Len(row)
             /\ n = 0 => row = <<>>
             /\ n > 0 =>
                  LET p == PairOfIndex(n - 1, n3)
                      last == Len(row)
                  IN  /\ col[last] = n - 1
                      /\ row[last] = to_serial(p[2] \div 3, p[2] % 3, p[1] \div 3, p[1] % 3, natom)
                      /\ \A t \in 1..last : col[t] = n - 1 =>
                            row[t] \in {to_serial(p[1] \div 3, p[1] % 3, p[2] \div 3, p[2] % 3, natom),
                                        to_serial(p[2] \div 3, p[2] % 3, p[1] \div 3, p[1] % 3, natom)}
                      /\ \A t \in 1..(last - 1) : col[t] <= col[t + 1] /\ col[t + 1] <= col[t] + 1
             /\ comb = Exhausted => ParityAssert(natom, n)
    /\ pc = "step2" => perm_mat[1].shape[2] = CompressedSize(natom)

C9_Witness == pc = "step2" /\ natom = 2 /\ perm_mat[1].shape[2] = 21

\* The statement of C1 as written: C.T @ C is the identity, every column of
\* squared norm exactly 1.
C1_GramExactlyIdentity ==
    pc = "step2" =>
        \E G \in {SpMul(SpT(perm_mat[1]), perm_mat[1])} :
            /\ G.shape = <<CompressedSize(natom), CompressedSize(natom)>>
            /\ \A k \in 0..(G.shape[1] - 1) :
                  /\ k \in DOMAIN G.rows[k]
                  /\ \A c \in DOMAIN G.rows[k] :
                        G.rows[k][c] = IF c = k THEN FOne ELSE FZero

\* C1, amended: C.T @ C is the identity up to binary64 rounding.  Every column
\* holds one entry 1 and has squared norm 1, or holds two entries, both the
\* binary64 number nearest sqrt(2)/2, on distinct rows and has squared norm
\* 1 + 2^-52; two distinct columns share no row, so every off-diagonal entry
\* of C.T @ C is 0.
C1_GramIdentityUpToRounding ==
    pc = "step2" =>
        \E Ct \in {SpT(perm_mat[1])} :
        \E G \in {SpMul(Ct, perm_mat[1])} :
            /\ G.shape = <<CompressedSize(natom), CompressedSize(natom)>>
            /\ perm_mat[1].shape = <<9 * natom * natom, CompressedSize(natom)>>
            /\ \A r \in 0..(perm_mat[1].shape[1] - 1) :
                  Cardinality(DOMAIN perm_mat[1].rows[r]) <= 1
            /\ \A k \in 0..(G.shape[1] - 1) :
                  /\ DOMAIN G.rows[k] = {k}
                  /\ \/ /\ Cardinality(DOMAIN Ct.rows[k]) = 1
                        /\ \A r \in DOMAIN Ct.rows[k] : Ct.rows[k][r] = FOne
                        /\ G.rows[k][k] = FOne
                     \/ /\ Cardinality(DOMAIN Ct.rows[k]) = 2
                        /\ \A r \in DOMAIN Ct.rows[k] : IsNearestSqrtTwoHalf(Ct.rows[k][r])
                        /\ G.rows[k][k] = FOnePlusUlp

C1_Witness ==
    /\ pc = "step2" /\ natom = MaxNatomPerm
    /\ Cardinality(DOMAIN SpT(perm_mat[1]).rows[1]) = 2
    /\ Cardinality(DOMAIN SpT(perm_mat[1]).rows[0]) = 1

\* x and y are the same binary64 or neighbours within a binade.
UlpClose(x, y) ==
    \/ x = y
    \/ /\ x.m # <<>> /\ y.m # <<>> /\ x.e = y.e
       /\ BigCmp(BigAdd(x.m, <<1>>), y.m) >= 0
       /\ BigCmp(BigAdd(y.m, <<1>>), x.m) >= 0

FullRows(N) == 0..(9 * N * N - 1)

\* The full-space row of (j, b, i, a) for the row r of (i, a, j, b), r read
\* back into its four indices.
SwapRow(r, N) ==
    to_serial((r \div 9) % N, r % 3, r \div (9 * N), (r % 9) \div 3, N)

\* C8 as written: every row of perm_mat has one stored entry; perm_mat @
\* perm_mat.T has 1 on the row of a repeated pair and 1/2 at the row and at
\* its swapped row otherwise; it is idempotent, and leaves perm_mat fixed.
C8_ExactSymmetrizingProjector ==
    pc = "step2" =>
        \E C \in {perm_mat[1]} :
        \E P \in {SpMul(C, SpT(C))} :
            /\ \A i, j \in 0..(natom - 1) : \A a, b \in 0..2 :
                  SwapRow(to_serial(i, a, j, b, natom), natom) = to_serial(j, b, i, a, natom)
            /\ \A r \in FullRows(natom) : Cardinality(DOMAIN C.rows[r]) = 1
            /\ \A r \in FullRows(natom) :
                  \E q \in {SwapRow(r, natom)} :
                     /\ DOMAIN P.rows[r] = {r, q}
                     /\ \A c \in {r, q} :
                           P.rows[r][c] = IF r = q THEN FOne ELSE FHalf(FOne)
            /\ SpMul(P, P) = P
            /\ SpMul(P, C) = C

\* C8, amended: the same structure, the entries 1/2 of perm_mat @ perm_mat.T
\* being the double next to 1/2, and the two products agreeing with
\* perm_mat @ perm_mat.T and with perm_mat on the same stored positions to
\* within one unit in the last place.
C8_SymmetrizingProjectorUpToRounding ==
    pc = "step2" =>
        \E C \in {perm_mat[1]} :
        \E P \in {SpMul(C, SpT(C))} :
        \E PP \in {SpMul(P, P)} :
        \E PC \in {SpMul(P, C)} :
            /\ \A i, j \in 0..(natom - 1) : \A a, b \in 0..2 :
                  SwapRow(to_serial(i, a, j, b, natom), natom) = to_serial(j, b, i, a, natom)
            /\ \A r \in FullRows(natom) :
                  /\ Cardinality(DOMAIN C.rows[r]) = 1
                  /\ \A c \in DOMAIN C.rows[r] : C.rows[r][c] # FZero
            /\ \A r \in FullRows(natom) :
                  \E q \in {SwapRow(r, natom)} :
                     /\ DOMAIN P.rows[r] = {r, q}
                     /\ \A c \in {r, q} :
                           IF r = q THEN P.rows[r][c] = FOne
                           ELSE /\ UlpClose(P.rows[r][c], FHalf(FOne))
                                /\ P.rows[r][c] = P.rows[q][c]
            /\ PP.shape = P.shape /\ PC.shape = C.shape
            /\ \A r \in FullRows(natom) :
                  /\ DOMAIN PP.rows[r] = DOMAIN P.rows[r]
                  /\ \A c \in DOMAIN P.rows[r] : UlpClose(PP.rows[r][c], P.rows[r][c])
                  /\ DOMAIN PC.rows[r] = DOMAIN C.rows[r]
                  /\ \A c \in DOMAIN C.rows[r] : UlpClose(PC.rows[r][c], C.rows[r][c])

\* perm_mat built for two atoms, the row of (0, 0, 1, 1) sharing its column
\* with the row of (1, 1, 0, 0).
C8_Witness ==
    /\ pc = "step2" /\ natom = 2
    /\ DOMAIN perm_mat[1].rows[to_serial(0, 0, 1, 1, 2)]
          = DOMAIN perm_mat[1].rows[to_serial(1, 1, 0, 0, 2)]
    /\ \A c \in DOMAIN perm_mat[1].rows[to_serial(0, 0, 1, 1, 2)] :
          IsNearestSqrtTwoHalf(perm_mat[1].rows[to_serial(0, 0, 1, 1, 2)][c])

(***************************************************************************)
(* Properties of the pipeline.                                             *)
(***************************************************************************)
Atoms == 0..(self_natom - 1)

\* |g - target| <= 10^-6 for a binary64 g >= 0 and target 0 or 1, compared
\* exactly: g = m * 2^(e - 52).
WithinMicro(g, target) ==
    LET million == BigFromInt(10 ^ 6)
    IN  IF g.m = <<>> THEN target = 0
        ELSE IF g.e > 0 THEN FALSE
        ELSE LET gm == BigMul(g.m, million)                       \* g * 10^6 * 2^(52 - e)
                 unit == BigShiftLeft(BigPow2(MantBits - 1), -g.e) \* 1 * 2^(52 - e)
                 lo == BigMul(unit, BigFromInt(target * 10 ^ 6 - 1))
                 hi == BigMul(unit, BigFromInt(target * 10 ^ 6 + 1))
             IN  /\ BigCmp(gm, hi) <= 0
                 /\ target = 1 => BigCmp(lo, gm) <= 0

\* Entry (x, y) of basis_matrix @ basis_matrix.T, the tensors flattened.
BasisGram(bs, x, y, N) ==
    FSum([f \in 1..(9 * N * N) |->
            LET t == <<((f - 1) \div 9) \div N, ((f - 1) \div 9) % N,
                       ((f - 1) % 9) \div 3, (f - 1) % 3>>
            IN  FMul(bs[x][t], bs[y][t])])

\* C2: every tensor F of basis_sets has F[i,j,a,b] = F[j,i,b,a] exactly, and
\* perm_mat stores the same entries on the full-space rows of (i,j,a,b) and of
\* (j,i,b,a), so that the reshaped perm_mat @ u is symmetric for every u.
C2_PairPermutationSymmetric ==
    pc = "done" =>
        /\ \A x \in 1..Len(basis_sets[1]) :
           \A i, j \in Atoms : \A a, b \in 0..2 :
              basis_sets[1][x][<<i, j, a, b>>] = basis_sets[1][x][<<j, i, b, a>>]
        /\ \A i, j \in Atoms : \A a, b \in 0..2 :
              perm_mat[1].rows[FlatIndex(i, j, a, b, self_natom)]
                 = perm_mat[1].rows[FlatIndex(j, i, b, a, self_natom)]

\* A returned tensor with a nonzero entry between two different atoms and
\* two different directions.
C2_Witness ==
    /\ pc = "done" /\ self_natom = 2
    /\ \E x \in 1..Len(basis_sets[1]) :
          /\ basis_sets[1][x][<<0, 1, 0, 1>>] # FZero
          /\ basis_sets[1][x][<<1, 0, 1, 0>>] # FZero

C4_NoPartialResult ==
    /\ pc # "done" =>
          self_basis_sets = None /\ basis_sets = None /\ basis_sets_matrix_form = None
    /\ pc = "done" =>
          /\ error = "none"
          /\ basis_sets # None /\ basis_sets_matrix_form # None
          /\ Len(basis_sets_matrix_form[1]) = Len(basis_sets[1])
          /\ \A x \in 1..Len(basis_sets[1]) :
                DOMAIN basis_sets[1][x] = Atoms \X Atoms \X (0..2) \X (0..2)

\* The last stage raised.
C4_Witness == pc = "raised" /\ error = "LinAlgError" /\ self_basis_sets = None

\* C5 as written: once the constructor has started, either reps[0].shape[0]
\* is 3 * natom with natom >= 1, or the construction has failed.
C5_MalformedShapeFailsFast ==
    pc # "new" =>
        \/ self_reps.shape0 = 3 * self_natom /\ self_natom >= 1
        \/ pc = "raised"

\* C6 as written: _step2 never returns with fewer than rank columns.
C6_RankMismatchSurfaced == pc = "step3" => Len(vecs[1]) = rank

\* C7 as written: with the identity as the only representation of two atoms
\* the construction does not raise.
C7_IdentityOnlySucceeds ==
    (self_reps.identity_only /\ self_reps.shape0 = 6) => pc # "raised"

\* C10: when _step2 returns, the columns kept are exactly those of the
\* eigenvalues with |lambda| > tol, each of them within tol of 1, and at most
\* rank of them; _step2 raises from assert_allclose, with no eigenvector
\* returned, exactly when a kept eigenvalue is off 1 by more than tol.
C10_StrictEigenvalueFilter ==
    /\ pc = "step3" =>
          /\ Len(vals) = rank
          /\ Len(vecs[1]) <= rank
          /\ \A k \in 1..Len(vals) :
                (\E x \in 1..Len(vecs[1]) : vecs[1][x] = k)
                   <=> (vals[k] > Tol \/ vals[k] < -Tol)
          /\ \A x \in 1..Len(vecs[1]) :
                /\ One - Tol <= vals[vecs[1][x]] /\ vals[vecs[1][x]] <= One + Tol
                /\ x > 1 => vecs[1][x - 1] < vecs[1][x]
    /\ (pc = "raised" /\ error = "AssertionError") =>
          /\ vecs = None
          /\ \E k \in 1..Len(vals) :
                /\ vals[k] > Tol \/ vals[k] < -Tol
                /\ vals[k] < One - Tol \/ vals[k] > One + Tol
    /\ (pc = "step3" \/ pc = "step4" \/ pc = "done") => error = "none"

\* _step2 returned fewer columns than rank, all of them consistent.
C10_Witness ==
    /\ pc = "step3"
    /\ rank = 2 /\ Len(vecs[1]) = 1
    /\ vals[vecs[1][1]] = One + Tol

=============================================================================
